---- MODULE Spec2Model ----
(***************************************************************************)
(* A model of nanobot's heartbeat service (nanobot/heartbeat/service.py),  *)
(* of the memory consolidation of MemoryStore and of the result count of   *)
(* the search tools (BaseSearchTool.top_k).  The heartbeat service         *)
(* is an asyncio program: every await is a suspension point, and one       *)
(* action of the model is the code that runs between two suspension points *)
(* of one coroutine.                                                       *)
(***************************************************************************)
EXTENDS Integers, Sequences, FiniteSets, TLC

\* ------------------------------------------------------------------ bounds

\* Loop tasks start() may create in one behaviour.
MaxLoops == 2

\* Concurrent callers of trigger_now().
MaxCallers == 1

\* Entries the History Store may hold: consolidate() is not called past it.
MaxHistory == 2

\* Messages a session may hold; the memory window of a call is at most that.
MaxMessages == 2

\* The largest count, in absolute value, a caller passes to top_k.
MaxCount == 52

Loops == 1..MaxLoops

Callers == 1..MaxCallers

\* ------------------------------------------------------------------ values

\* Python's None where a text is expected.
NoneV == "<None>"

\* What a read of the trigger file HEARTBEAT.md can find. The file is the
\* environment's: each read of it is an input of the step that reads.
FileStates == {"absent", "unreadable", "empty", "content"}

\* The tasks texts the oracle may put in its tool call.
TaskTexts == {"T1", "T2"}

\* The texts on_execute may return: an empty and a non-empty one.
ExecResults == {"", "R1"}

\* The arguments of a heartbeat tool call as a mapping: an action of the enum
\* of _HEARTBEAT_TOOL and a tasks text, each of which may be missing.
ArgMaps ==
  { m \in UNION { [D -> {"skip", "run"} \cup TaskTexts] : D \in SUBSET {"action", "tasks"} } :
      /\ ("action" \in DOMAIN m => m["action"] \in {"skip", "run"})
      /\ ("tasks" \in DOMAIN m => m["tasks"] \in TaskTexts) }

NoArgs == [kind |-> "none", map |-> << >>]

\* A response of provider.chat: has_tool_calls and the arguments of
\* tool_calls[0], a mapping or the raw JSON text that encodes one.
NoToolCall == [has_tool_calls |-> FALSE, arguments |-> NoArgs]

MappingCall(m) == [has_tool_calls |-> TRUE, arguments |-> [kind |-> "mapping", map |-> m]]

TextCall(m) == [has_tool_calls |-> TRUE, arguments |-> [kind |-> "text", map |-> m]]

Responses ==
  {NoToolCall}
    \cup { MappingCall(m) : m \in ArgMaps }
    \cup { TextCall(m) : m \in { w \in ArgMaps : DOMAIN w = {"action", "tasks"} /\ w["tasks"] = "T1" } }

\* ------------------------------------------------------------------ state

VARIABLES
  enabled,      \* self.enabled
  onExecute,    \* self.on_execute is not None
  onNotify,     \* self.on_notify is not None
  running,      \* self._running
  task,         \* self._task: 0 is None, else the loop task's number
  created,      \* the number of loop tasks created so far
  loop,         \* the loop tasks: each one's position and tick in progress
  trig,         \* the trigger_now() calls: each caller's position and result
  lastCall      \* what the most recent start() or stop() did

hbVars == <<enabled, onExecute, onNotify, running, task, created, loop, trig, lastCall>>

VARIABLES
  historyStore,    \* the History Store: the entries appended, oldest first
  memorySnapshot,  \* the Memory Snapshot: its text, Absent before the first write
  lastCons,        \* the most recent consolidate() call: its input, return value and path
  successes,       \* consolidate() calls that found a tool invocation and returned true
  partials,        \* calls whose history append was done and whose snapshot write failed
  lastGood         \* the memory_update of the most recent successful consolidation

memVars == <<historyStore, memorySnapshot, lastCons, successes, partials, lastGood>>

VARIABLES
  searchTool,   \* a search tool: its max_results and limit_results
  lastTopK      \* the most recent top_k call: its count and what it returned

searchVars == <<searchTool, lastTopK>>

vars == <<hbVars, memVars, searchVars>>

\* ------------------------------------------------- HeartbeatService helpers

\* _read_heartbeat_file: the file's text when it exists and can be read, else
\* None (a failing read_text is caught).
ReadHeartbeatFile(f) ==
  CASE f = "content" -> "- [ ] task"
    [] f = "empty" -> ""
    [] OTHER -> NoneV

\* A truth test that is `is not None`: the empty text passes it.
IsNotNone(x) == x # NoneV

\* Python's truth of a text or None: `not content`, `response and ...`.
Truthy(x) == x # NoneV /\ x # ""

\* args.get(key, default) on the arguments of a tool call. A str has no get:
\* the access raises AttributeError, which raised |-> TRUE stands for.
ArgsGet(args, key, default) ==
  IF args.kind # "mapping" THEN [raised |-> TRUE, value |-> default]
  ELSE IF key \in DOMAIN args.map THEN [raised |-> FALSE, value |-> args.map[key]]
  ELSE [raised |-> FALSE, value |-> default]

\* _decide that takes a response without a tool call for a run.
DecideNoToolCallRuns(response) ==
  IF ~response.has_tool_calls
  THEN [raised |-> FALSE, action |-> "run", tasks |-> ""]
  ELSE LET a == ArgsGet(response.arguments, "action", "skip")
           t == ArgsGet(response.arguments, "tasks", "")
       IN  [raised |-> a.raised \/ t.raised, action |-> a.value, tasks |-> t.value]

\* _decide, after provider.chat has returned `response`: (action, tasks), or
\* the exception of the argument access.
Decide(response) ==
  IF ~response.has_tool_calls
  THEN [raised |-> FALSE, action |-> "skip", tasks |-> ""]
  ELSE LET a == ArgsGet(response.arguments, "action", "skip")
           t == ArgsGet(response.arguments, "tasks", "")
       IN  [raised |-> a.raised \/ t.raised, action |-> a.value, tasks |-> t.value]

\* A loop task before create_task, and a trigger_now() caller between calls.
NoLoop ==
  [pc |-> "unborn", cancel |-> FALSE, read |-> "unread", resp |-> NoToolCall,
   arg |-> NoneV, res |-> NoneV, last |-> "none"]

NoCall ==
  [pc |-> "idle", read |-> "unread", resp |-> NoToolCall, arg |-> NoneV,
   result |-> NoneV, failure |-> "none", notified |-> FALSE]

\* The loop task's positions: created and not yet run, suspended in
\* asyncio.sleep, in provider.chat, in on_execute, in on_notify; finished
\* normally (done), finished cancelled, finished with an exception (crashed).
Suspended == {"sleep", "decide", "execute", "notify"}

Ticking == {"decide", "execute", "notify"}

Finished == {"done", "cancelled", "crashed"}

\* asyncio runs ready callbacks in the order they were scheduled: the wake-up
\* that delivers stop()'s cancellation to an older loop task is scheduled
\* before anything a later start() schedules for its new task.
Ready(l) == \A k \in Loops : k < l => ~loop[k].cancel

\* --------------------------------------------------- JSON values and texts

\* A JSON value: a string, a list of values, or an object, the sequence of
\* its <<key, value>> pairs in insertion order.
JStr(x) == [t |-> "str", v |-> x]

JList(xs) == [t |-> "list", v |-> xs]

JObj(ps) == [t |-> "obj", v |-> ps]

\* A text is a sequence of tokens: the characters of a plain string taken as
\* one token, or the tokens of JSON text, punctuation and string literals.
Raw(x) == [k |-> "raw", v |-> x]

Punct(x) == [k |-> "punct", v |-> x]

Lit(x) == [k |-> "lit", v |-> x]

RECURSIVE JsonDumps(_)
RECURSIVE DumpItems(_, _)
RECURSIVE DumpPairs(_, _)

\* The elements of a list from the i-th on, comma separated.
DumpItems(xs, i) ==
  IF i > Len(xs) THEN << >>
  ELSE (IF i > 1 THEN <<Punct(",")>> ELSE << >>) \o JsonDumps(xs[i]) \o DumpItems(xs, i + 1)

\* The pairs of an object from the i-th on, comma separated.
DumpPairs(ps, i) ==
  IF i > Len(ps) THEN << >>
  ELSE (IF i > 1 THEN <<Punct(",")>> ELSE << >>)
         \o <<Lit(ps[i][1]), Punct(":")>> \o JsonDumps(ps[i][2]) \o DumpPairs(ps, i + 1)

\* json.dumps(value): the JSON text of a value.
JsonDumps(j) ==
  CASE j.t = "str" -> <<Lit(j.v)>>
    [] j.t = "list" -> <<Punct("[")>> \o DumpItems(j.v, 1) \o <<Punct("]")>>
    [] OTHER -> <<Punct("{")>> \o DumpPairs(j.v, 1) \o <<Punct("}")>>

ParseFail == [ok |-> FALSE, val |-> JStr(""), next |-> 0]

IsTok(toks, i, tok) == i <= Len(toks) /\ toks[i] = tok

RECURSIVE ParseValue(_, _)
RECURSIVE ParseItems(_, _, _)
RECURSIVE ParsePairs(_, _, _)

\* The rest of a list whose elements so far are `acc`, from token i.
ParseItems(toks, i, acc) ==
  LET x == ParseValue(toks, i)
  IN  IF ~x.ok THEN ParseFail
      ELSE IF IsTok(toks, x.next, Punct("]"))
      THEN [ok |-> TRUE, val |-> JList(Append(acc, x.val)), next |-> x.next + 1]
      ELSE IF IsTok(toks, x.next, Punct(","))
      THEN ParseItems(toks, x.next + 1, Append(acc, x.val))
      ELSE ParseFail

\* The rest of an object whose pairs so far are `acc`, from token i.
ParsePairs(toks, i, acc) ==
  IF ~(i + 1 <= Len(toks) /\ toks[i].k = "lit" /\ toks[i + 1] = Punct(":")) THEN ParseFail
  ELSE LET x == ParseValue(toks, i + 2)
       IN  IF ~x.ok THEN ParseFail
           ELSE IF IsTok(toks, x.next, Punct("}"))
           THEN [ok |-> TRUE, val |-> JObj(Append(acc, <<toks[i].v, x.val>>)), next |-> x.next + 1]
           ELSE IF IsTok(toks, x.next, Punct(","))
           THEN ParsePairs(toks, x.next + 1, Append(acc, <<toks[i].v, x.val>>))
           ELSE ParseFail

\* One JSON value from token i: the value and the index after it.
ParseValue(toks, i) ==
  IF i > Len(toks) THEN ParseFail
  ELSE IF toks[i].k = "lit" THEN [ok |-> TRUE, val |-> JStr(toks[i].v), next |-> i + 1]
  ELSE IF toks[i] = Punct("[")
  THEN IF IsTok(toks, i + 1, Punct("]"))
       THEN [ok |-> TRUE, val |-> JList(<< >>), next |-> i + 2]
       ELSE ParseItems(toks, i + 1, << >>)
  ELSE IF toks[i] = Punct("{")
  THEN IF IsTok(toks, i + 1, Punct("}"))
       THEN [ok |-> TRUE, val |-> JObj(<< >>), next |-> i + 2]
       ELSE ParsePairs(toks, i + 1, << >>)
  ELSE ParseFail

\* json.loads(text): the value, or the failure of a text that is not JSON.
JsonLoads(text) ==
  LET x == ParseValue(text, 1)
  IN  IF x.ok /\ x.next = Len(text) + 1 THEN [ok |-> TRUE, val |-> x.val]
      ELSE [ok |-> FALSE, val |-> JStr("")]

\* ------------------------------------------------ MemoryStore.consolidate

\* The Memory Snapshot before its first write: the file does not exist.
Absent == <<[k |-> "absent", v |-> ""]>>

\* The values the oracle may give the two fields of save_memory: plain
\* strings and structured objects, mappings and a sequence.
HistoryValues ==
  {JStr("h1"), JStr("h2"), JObj(<< <<"timestamp", JStr("2026-01-01")>>, <<"summary", JStr("X")>> >>)}

MemoryValues ==
  {JStr("m1"), JStr("m2"), JObj(<< <<"facts", JList(<<JStr("A")>>)>> >>),
   JList(<<JStr("A"), JStr("B")>>)}

SaveMemoryMappings ==
  { JObj(<< <<"history_entry", h>>, <<"memory_update", m>> >>) :
      h \in HistoryValues, m \in MemoryValues }

\* The arguments of the tool call: a native value (a mapping, or something
\* that is none, here a list) or a text (the JSON text of a mapping, or a
\* text that is not JSON).
NativeArgs(j) == [enc |-> "native", val |-> j, text |-> << >>]

TextArgs(toks) == [enc |-> "text", val |-> JStr(""), text |-> toks]

SaveMemoryArguments ==
  { NativeArgs(j) : j \in SaveMemoryMappings }
    \cup { TextArgs(JsonDumps(j)) : j \in SaveMemoryMappings }
    \cup { NativeArgs(JList(<< >>)), TextArgs(<<Raw("not json")>>) }

\* What the oracle call of a consolidation comes to.
OracleRaises == [kind |-> "raise", arguments |-> NativeArgs(JList(<< >>))]

NoToolCallOutcome == [kind |-> "no_tool_call", arguments |-> NativeArgs(JList(<< >>))]

ConsOutcomes ==
  {OracleRaises, NoToolCallOutcome}
    \cup { [kind |-> "tool_call", arguments |-> a] : a \in SaveMemoryArguments }

\* Which of the two writes of a call fails, if any.
WriteFailures == {"none", "history", "memory"}

\* An argument decoding that knows the native mapping only: a text is never
\* parsed.
DecodeNativeOnly(a) ==
  IF a.enc = "native" /\ a.val.t = "obj" THEN [ok |-> TRUE, val |-> a.val]
  ELSE [ok |-> FALSE, val |-> JStr("")]

\* An argument decoding that takes what is not a mapping for a mapping
\* without fields.
DecodeCoerces(a) ==
  LET j == IF a.enc = "text" THEN JsonLoads(a.text) ELSE [ok |-> TRUE, val |-> a.val]
  IN  IF j.ok /\ j.val.t = "obj" THEN j ELSE [ok |-> TRUE, val |-> JObj(<< >>)]

\* Argument normalization, encodings 1 and 2: a text is parsed first; the
\* result must be a mapping.
DecodeArguments(a) ==
  LET j == IF a.enc = "text" THEN JsonLoads(a.text) ELSE [ok |-> TRUE, val |-> a.val]
  IN  IF j.ok /\ j.val.t = "obj" THEN j ELSE [ok |-> FALSE, val |-> JStr("")]

\* The decoding of each of the arguments the oracle may give.
Decoded == [a \in SaveMemoryArguments |-> DecodeArguments(a)]

RECURSIVE GetFrom(_, _, _)

\* The value under `key` among the pairs from the i-th on.
GetFrom(ps, key, i) ==
  IF i > Len(ps) THEN JStr("")
  ELSE IF ps[i][1] = key THEN ps[i][2]
  ELSE GetFrom(ps, key, i + 1)

\* A field normalization that serializes every value, a plain string too.
NormalizeFieldDumpsAll(v) == JsonDumps(v)

\* Argument normalization, encoding 3: a string is used verbatim, a
\* structured value is serialized to JSON text.
NormalizeField(v) ==
  IF v.t = "str" THEN <<Raw(v.v)>> ELSE JsonDumps(v)

\* A history write that rewrites the store with the new entry.
AppendHistoryRewrites(store, entry) == <<entry>>

\* The History Store after the append of an entry: a new record after the
\* prior ones.
AppendHistory(store, entry) == Append(store, entry)

\* A snapshot write that appends to the snapshot there is.
WriteSnapshotAppends(snapshot, text) ==
  IF snapshot = Absent THEN text ELSE snapshot \o text

\* The Memory Snapshot after a write: the new text, whatever it was.
WriteSnapshot(snapshot, text) == text

\* A consolidate() that takes a response without a tool call for nothing to
\* do.
NoToolCallReturnsTrue == "true"

\* What consolidate() returns on a response without a tool invocation.
NoToolCallReturn == "false"

\* A consolidate() that reports success whatever its writes did.
WriteFailureReturnsTrue == "true"

\* What consolidate() returns when one of its two writes failed.
WriteFailureReturn == "false"

\* A window gate that also skips a session of exactly memoryWindow messages.
NothingToDoAtWindow(n, w) == n <= w

\* The window gate: fewer messages than the memory window is nothing to do.
NothingToDo(n, w) == n < w

\* consolidate(session, oracle, model, memoryWindow) on a session of n
\* messages with window w, the oracle answering `o` and the write `wf`
\* failing: the return value, the path taken and the two stores afterwards.
ConsolidateResult(n, w, o, wf, history, snapshot) ==
  LET keep(ret, path) ==
        [ret |-> ret, path |-> path, history |-> history, memory |-> snapshot]
      args == Decoded[o.arguments]
      entry == NormalizeField(GetFrom(args.val.v, "history_entry", 1))
      update == NormalizeField(GetFrom(args.val.v, "memory_update", 1))
  IN  IF NothingToDo(n, w) THEN keep("true", "skipped")
      ELSE IF o.kind = "raise" THEN keep("false", "oracle_failed")
      ELSE IF o.kind = "no_tool_call" THEN keep(NoToolCallReturn, "no_tool_call")
      ELSE IF ~args.ok THEN keep("false", "malformed")
      ELSE IF wf = "history" THEN keep(WriteFailureReturn, "history_write_failed")
      ELSE IF wf = "memory"
      THEN [ret |-> WriteFailureReturn, path |-> "memory_write_failed",
            history |-> AppendHistory(history, entry), memory |-> snapshot]
      ELSE [ret |-> "true", path |-> "consolidated",
            history |-> AppendHistory(history, entry),
            memory |-> WriteSnapshot(snapshot, update)]

\* One call of consolidate().
Consolidate(n, w, o, wf) ==
  /\ Len(historyStore) < MaxHistory
  /\ LET r == ConsolidateResult(n, w, o, wf, historyStore, memorySnapshot)
     IN  /\ historyStore' = r.history
         /\ memorySnapshot' = r.memory
         /\ lastCons' = [ret |-> r.ret, path |-> r.path]
         /\ successes' = IF r.path = "consolidated" THEN successes + 1 ELSE successes
         /\ partials' = IF r.path = "memory_write_failed" THEN partials + 1 ELSE partials
         /\ lastGood' =
              IF r.path = "consolidated"
              THEN NormalizeField(GetFrom(Decoded[o.arguments].val.v, "memory_update", 1))
              ELSE lastGood
  /\ UNCHANGED <<hbVars, searchVars>>

MemNext ==
  \E n \in 0..MaxMessages, w \in 1..MaxMessages, o \in ConsOutcomes, wf \in WriteFailures :
    Consolidate(n, w, o, wf)

\* ------------------------------------------------ BaseSearchTool.top_k

\* The class attributes of BaseSearchTool, and the limit_results
\* BaiduSearchTool sets for itself.
DefaultMaxResults == 5

BaseLimitResults == 10

BaiduLimitResults == 50

\* The values config.max_results may have: below the range, the default, and
\* above every limit.
ConfigMaxResults == {-3, 0, DefaultMaxResults, BaiduLimitResults + 5}

\* The search tools __init__ makes: max_results from the configuration,
\* limit_results of the class (BaseSearchTool, BraveSearchTool) or 50
\* (BaiduSearchTool).
SearchTools ==
  [max_results : ConfigMaxResults, limit_results : {BaseLimitResults, BaiduLimitResults}]

\* The counts a caller passes to top_k: None, or an integer.
NoCount == [given |-> FALSE, n |-> 0]

Counts == {NoCount} \cup { [given |-> TRUE, n |-> k] : k \in (0 - MaxCount)..MaxCount }

\* Python's min and max of two integers.
Min(a, b) == IF a <= b THEN a ELSE b

Max(a, b) == IF a >= b THEN a ELSE b

\* `count or self.max_results`: None and 0 are false.
CountOr(count, max_results) ==
  IF ~count.given \/ count.n = 0 THEN max_results ELSE count.n

\* A top_k without the floor of 1.
TopKWithoutFloor(tool, count) ==
  Min(CountOr(count, tool.max_results), tool.limit_results)

\* top_k(count): min(max(count or self.max_results, 1), self.limit_results).
TopK(tool, count) ==
  Min(Max(CountOr(count, tool.max_results), 1), tool.limit_results)

\* No top_k call yet.
NoTopK == [called |-> FALSE, count |-> NoCount, top_k |-> 0]

\* A caller calls top_k(count) on the tool.
TopKCall(count) ==
  /\ lastTopK' = [called |-> TRUE, count |-> count, top_k |-> TopK(searchTool, count)]
  /\ UNCHANGED <<searchTool, hbVars, memVars>>

SearchNext == \E count \in Counts : TopKCall(count)

\* The search tool of a heartbeat or memory behaviour: the class attributes,
\* and no call.
SearchIdle ==
  /\ searchTool = [max_results |-> DefaultMaxResults, limit_results |-> BaseLimitResults]
  /\ lastTopK = NoTopK

\* The memory files of a new workspace: no history, no snapshot, no call yet.
MemInit ==
  /\ historyStore = << >>
  /\ memorySnapshot = Absent
  /\ lastCons = [ret |-> "none", path |-> "none"]
  /\ successes = 0
  /\ partials = 0
  /\ lastGood = Absent

\* The default of the `enabled` parameter of __init__.
DefaultEnabled == TRUE

\* The service as __init__ leaves it, whatever its arguments.
Init ==
  /\ MemInit
  /\ SearchIdle
  /\ enabled \in BOOLEAN
  /\ onExecute \in BOOLEAN
  /\ onNotify \in BOOLEAN
  /\ running = FALSE
  /\ task = 0
  /\ created = 0
  /\ loop = [l \in Loops |-> NoLoop]
  /\ trig = [c \in Callers |-> NoCall]
  /\ lastCall = "none"

\* ------------------------------------------------------------ start, stop

\* start() without its `if self._running` early return.
StartWithoutRunningCheck ==
  /\ IF ~enabled
     THEN /\ lastCall' = "start_disabled"
          /\ UNCHANGED <<running, task, created, loop>>
     ELSE /\ created < MaxLoops
          /\ running' = TRUE
          /\ created' = created + 1
          /\ task' = created + 1
          /\ loop' = [loop EXCEPT ![created + 1] = [NoLoop EXCEPT !.pc = "created"]]
          /\ lastCall' = IF running THEN "start_already" ELSE "start_created"
  /\ UNCHANGED <<enabled, onExecute, onNotify, trig, memVars, searchVars>>

\* start() without its `if not self.enabled` early return.
StartIgnoresEnabled ==
  /\ IF running
     THEN /\ lastCall' = "start_already"
          /\ UNCHANGED <<running, task, created, loop>>
     ELSE /\ created < MaxLoops
          /\ running' = TRUE
          /\ created' = created + 1
          /\ task' = created + 1
          /\ loop' = [loop EXCEPT ![created + 1] = [NoLoop EXCEPT !.pc = "created"]]
          /\ lastCall' = "start_created"
  /\ UNCHANGED <<enabled, onExecute, onNotify, trig, memVars, searchVars>>

\* start() that creates the loop task and does not keep its handle.
StartWithoutHandle ==
  /\ IF ~enabled
     THEN /\ lastCall' = "start_disabled"
          /\ UNCHANGED <<running, task, created, loop>>
     ELSE IF running
     THEN /\ lastCall' = "start_already"
          /\ UNCHANGED <<running, task, created, loop>>
     ELSE /\ created < MaxLoops
          /\ running' = TRUE
          /\ created' = created + 1
          /\ loop' = [loop EXCEPT ![created + 1] = [NoLoop EXCEPT !.pc = "created"]]
          /\ lastCall' = "start_created"
          /\ UNCHANGED task
  /\ UNCHANGED <<enabled, onExecute, onNotify, trig, memVars, searchVars>>

\* start(): nothing when disabled or already running; else _running = True
\* and create_task(_run_loop()).
Start ==
  /\ IF ~enabled
     THEN /\ lastCall' = "start_disabled"
          /\ UNCHANGED <<running, task, created, loop>>
     ELSE IF running
     THEN /\ lastCall' = "start_already"
          /\ UNCHANGED <<running, task, created, loop>>
     ELSE /\ created < MaxLoops
          /\ running' = TRUE
          /\ created' = created + 1
          /\ task' = created + 1
          /\ loop' = [loop EXCEPT ![created + 1] = [NoLoop EXCEPT !.pc = "created"]]
          /\ lastCall' = "start_created"
  /\ UNCHANGED <<enabled, onExecute, onNotify, trig, memVars, searchVars>>

\* stop() that drops the handle without task.cancel().
StopWithoutCancel ==
  /\ running' = FALSE
  /\ IF task # 0
     THEN /\ task' = 0
          /\ lastCall' = "stop_cancelled"
          /\ UNCHANGED loop
     ELSE /\ lastCall' = "stop_noop"
          /\ UNCHANGED <<task, loop>>
  /\ UNCHANGED <<enabled, onExecute, onNotify, created, trig, memVars, searchVars>>

\* stop() that cancels the task and keeps its handle.
StopKeepsHandle ==
  /\ running' = FALSE
  /\ IF task # 0
     THEN /\ loop' = [loop EXCEPT ![task].cancel = (loop[task].pc \notin Finished)]
          /\ lastCall' = "stop_cancelled"
          /\ UNCHANGED task
     ELSE /\ lastCall' = "stop_noop"
          /\ UNCHANGED <<task, loop>>
  /\ UNCHANGED <<enabled, onExecute, onNotify, created, trig, memVars, searchVars>>

\* stop(): _running = False; a held task is cancelled (Task.cancel() requests
\* the cancellation of a task that has not finished) and the handle cleared.
Stop ==
  /\ running' = FALSE
  /\ IF task # 0
     THEN /\ loop' = [loop EXCEPT ![task].cancel = (loop[task].pc \notin Finished)]
          /\ task' = 0
          /\ lastCall' = "stop_cancelled"
     ELSE /\ lastCall' = "stop_noop"
          /\ UNCHANGED <<task, loop>>
  /\ UNCHANGED <<enabled, onExecute, onNotify, created, trig, memVars, searchVars>>

\* -------------------------------------------------------------- _run_loop

\* A loop with `if self._running` for its `while`: one pass and the task
\* finishes.
WhileRunningOnce == "done"

\* A loop that ticks first and sleeps after: `await self._tick()` before
\* `await asyncio.sleep(...)`.
WhileRunningTicksFirst == IF running THEN "decide" ELSE "done"

\* The loop's `while self._running:` after a tick or at its first step: it
\* sleeps again, or falls out of the loop and the task finishes.
WhileRunning == IF running THEN "sleep" ELSE "done"

\* _run_loop without `except asyncio.CancelledError`: the cancellation leaves
\* the task.
LoopCancelledEscapes == "cancelled"

\* `except asyncio.CancelledError: break` of _run_loop: the task finishes
\* normally.
LoopOnCancelled == "done"

\* A _tick whose except clause catches the cancellation too (a bare except,
\* or `except BaseException`).
TickSwallowsCancelled == TRUE

\* Whether `except Exception` of _tick catches asyncio.CancelledError, a
\* BaseException: it does not.
TickCatchesCancelled == FALSE

\* A tick is over with `outcome`: back to `while self._running`.
EndTick(l, outcome) ==
  loop' = [loop EXCEPT ![l] =
             [NoLoop EXCEPT !.pc = WhileRunning, !.last = outcome, !.read = loop[l].read]]

\* _tick and _run_loop without their `except Exception`: the failure ends
\* the task.
TickFailureEscapes(l) ==
  loop' = [loop EXCEPT ![l] = [NoLoop EXCEPT !.pc = "crashed", !.last = "failed"]]

\* `except Exception: logger.exception(...)` of _tick: the failure is logged,
\* the tick returns.
TickFails(l) == EndTick(l, "failed")

hbRest == <<enabled, onExecute, onNotify, running, task, created, trig, lastCall, memVars, searchVars>>

\* The first step of the loop task: `while self._running` and into the sleep.
LoopBegin(l) ==
  /\ loop[l].pc = "created"
  /\ ~loop[l].cancel
  /\ Ready(l)
  /\ loop' = [loop EXCEPT ![l].pc = WhileRunning]
  /\ UNCHANGED hbRest

\* asyncio.sleep(interval_s) returns: `if self._running: await self._tick()`.
\* _tick reads the file and returns when there is nothing in it, else it
\* calls the oracle.
TimerFire(l, f) ==
  /\ loop[l].pc = "sleep"
  /\ ~loop[l].cancel
  /\ Ready(l)
  /\ IF ~running
     THEN loop' = [loop EXCEPT ![l].pc = WhileRunning]
     ELSE IF ~Truthy(ReadHeartbeatFile(f))
     THEN loop' = [loop EXCEPT ![l] = [NoLoop EXCEPT !.pc = WhileRunning, !.last = "noop", !.read = f]]
     ELSE loop' = [loop EXCEPT ![l].pc = "decide", ![l].last = "ticking", ![l].read = f]
  /\ UNCHANGED hbRest

\* A tick whose oracle call is shielded from the cancellation: it goes on
\* after a stop().
OracleReturnIgnoresCancel(l, r) ==
  /\ loop[l].pc = "decide"
  /\ LET d == Decide(r)
     IN  IF d.raised THEN TickFails(l)
         ELSE IF d.action # "run" THEN EndTick(l, "skipped")
         ELSE IF onExecute
         THEN loop' = [loop EXCEPT ![l].pc = "execute", ![l].resp = r, ![l].arg = d.tasks]
         ELSE EndTick(l, "no_execute")
  /\ UNCHANGED hbRest

\* provider.chat returns `r` to the tick: the decision, and on run the call
\* of on_execute with the tasks.
OracleReturn(l, r) ==
  /\ loop[l].pc = "decide"
  /\ ~loop[l].cancel
  /\ Ready(l)
  /\ LET d == Decide(r)
     IN  IF d.raised THEN TickFails(l)
         ELSE IF d.action # "run" THEN EndTick(l, "skipped")
         ELSE IF onExecute
         THEN loop' = [loop EXCEPT ![l].pc = "execute", ![l].resp = r, ![l].arg = d.tasks]
         ELSE EndTick(l, "no_execute")
  /\ UNCHANGED hbRest

\* provider.chat raises.
OracleRaise(l) ==
  /\ loop[l].pc = "decide"
  /\ ~loop[l].cancel
  /\ Ready(l)
  /\ TickFails(l)
  /\ UNCHANGED hbRest

\* A tick with `if self.on_notify` for `if response and self.on_notify`: an
\* empty result is notified too.
ExecuteReturnNotifiesEmpty(l, res) ==
  /\ loop[l].pc = "execute"
  /\ ~loop[l].cancel
  /\ Ready(l)
  /\ IF onNotify
     THEN loop' = [loop EXCEPT ![l].pc = "notify", ![l].res = res]
     ELSE EndTick(l, "executed")
  /\ UNCHANGED hbRest

\* on_execute returns `res`: `if response and self.on_notify` calls on_notify.
ExecuteReturn(l, res) ==
  /\ loop[l].pc = "execute"
  /\ ~loop[l].cancel
  /\ Ready(l)
  /\ IF Truthy(res) /\ onNotify
     THEN loop' = [loop EXCEPT ![l].pc = "notify", ![l].res = res]
     ELSE EndTick(l, "executed")
  /\ UNCHANGED hbRest

ExecuteRaise(l) ==
  /\ loop[l].pc = "execute"
  /\ ~loop[l].cancel
  /\ Ready(l)
  /\ TickFails(l)
  /\ UNCHANGED hbRest

NotifyReturn(l) ==
  /\ loop[l].pc = "notify"
  /\ ~loop[l].cancel
  /\ Ready(l)
  /\ EndTick(l, "notified")
  /\ UNCHANGED hbRest

NotifyRaise(l) ==
  /\ loop[l].pc = "notify"
  /\ ~loop[l].cancel
  /\ Ready(l)
  /\ TickFails(l)
  /\ UNCHANGED hbRest

\* The cancellation stop() requested reaches the task at its next step. A
\* task that has not run yet never enters the coroutine: the CancelledError
\* is thrown at its start, outside the loop's try, and the task ends
\* cancelled. In the sleep it is caught by _run_loop. In a tick it passes
\* _tick's `except Exception` and is caught by _run_loop.
CancelDeliver(l) ==
  /\ loop[l].cancel
  /\ Ready(l)
  /\ loop[l].pc \in Suspended \cup {"created"}
  /\ loop' = [loop EXCEPT ![l] =
       [NoLoop EXCEPT
          !.pc = IF loop[l].pc = "created" THEN "cancelled"
                 ELSE IF loop[l].pc \in Ticking /\ TickCatchesCancelled THEN WhileRunning
                 ELSE LoopOnCancelled,
          !.last = IF loop[l].pc \in Ticking THEN "abandoned" ELSE "none"]]
  /\ UNCHANGED hbRest

\* ------------------------------------------------------------ trigger_now

trigRest == <<enabled, onExecute, onNotify, running, task, created, loop, lastCall, memVars, searchVars>>

\* trigger_now() with the try of _tick around its cycle: the failure is
\* logged and None returned.
TriggerCatches(c, what) ==
  trig' = [trig EXCEPT ![c] =
             [NoCall EXCEPT !.pc = "returned", !.failure = what, !.read = trig[c].read]]

\* trigger_now() has no try: an exception of the oracle call, of the
\* argument access or of on_execute leaves it through the await of its
\* caller.
TriggerOnException(c, what) ==
  trig' = [trig EXCEPT ![c] =
             [NoCall EXCEPT !.pc = "raised", !.failure = what, !.read = trig[c].read]]

\* A trigger_now() that, like _tick, returns nothing: its caller gets None
\* whatever on_execute returned.
TriggerReturnsNothing(c, f, value, notified) ==
  trig' = [trig EXCEPT ![c] =
             [NoCall EXCEPT !.pc = "returned", !.read = f, !.result = NoneV,
                            !.notified = notified]]

\* trigger_now() returns `value`.
TriggerReturns(c, f, value, notified) ==
  trig' = [trig EXCEPT ![c] =
             [NoCall EXCEPT !.pc = "returned", !.read = f, !.result = value,
                            !.notified = notified]]

\* trigger_now() with the execution phase of _tick.
TriggerNotifiesAsTick(res) == Truthy(res) /\ onNotify

\* Whether trigger_now() calls on_notify with the result of on_execute: it
\* returns the result to its caller and never does.
TriggerNotifies(res) == FALSE

\* A trigger_now() that does nothing on a scheduler that is not running.
TriggerNowWhenRunning(c, f) ==
  /\ trig[c].pc = "idle"
  /\ running
  /\ IF ~Truthy(ReadHeartbeatFile(f))
     THEN TriggerReturns(c, f, NoneV, FALSE)
     ELSE trig' = [trig EXCEPT ![c] = [NoCall EXCEPT !.pc = "decide", !.read = f]]
  /\ UNCHANGED trigRest

\* A caller awaits trigger_now(): the file is read, and with nothing in it
\* the call returns None; else the oracle is called.
TriggerNow(c, f) ==
  /\ trig[c].pc = "idle"
  /\ IF ~Truthy(ReadHeartbeatFile(f))
     THEN TriggerReturns(c, f, NoneV, FALSE)
     ELSE trig' = [trig EXCEPT ![c] = [NoCall EXCEPT !.pc = "decide", !.read = f]]
  /\ UNCHANGED trigRest

\* provider.chat returns `r` to trigger_now().
TrigOracleReturn(c, r) ==
  /\ trig[c].pc = "decide"
  /\ LET d == Decide(r)
     IN  IF d.raised THEN TriggerOnException(c, "arguments")
         ELSE IF d.action # "run" \/ ~onExecute
         THEN TriggerReturns(c, trig[c].read, NoneV, FALSE)
         ELSE trig' = [trig EXCEPT ![c].pc = "execute", ![c].resp = r, ![c].arg = d.tasks]
  /\ UNCHANGED trigRest

TrigOracleRaise(c) ==
  /\ trig[c].pc = "decide"
  /\ TriggerOnException(c, "oracle")
  /\ UNCHANGED trigRest

\* on_execute returns `res`, which trigger_now() returns.
TrigExecuteReturn(c, res) ==
  /\ trig[c].pc = "execute"
  /\ TriggerReturns(c, trig[c].read, res, TriggerNotifies(res))
  /\ UNCHANGED trigRest

TrigExecuteRaise(c) ==
  /\ trig[c].pc = "execute"
  /\ TriggerOnException(c, "execute")
  /\ UNCHANGED trigRest

\* The caller has its result or its exception and may call again.
TriggerDone(c) ==
  /\ trig[c].pc \in {"returned", "raised"}
  /\ trig' = [trig EXCEPT ![c] = NoCall]
  /\ UNCHANGED trigRest

\* ------------------------------------------------------------------- Next

\* start(), stop() and the steps of the loop tasks.
SchedulerNext ==
  \/ Start
  \/ Stop
  \/ \E l \in Loops : LoopBegin(l)
  \/ \E l \in Loops, f \in FileStates : TimerFire(l, f)
  \/ \E l \in Loops, r \in Responses : OracleReturn(l, r)
  \/ \E l \in Loops : OracleRaise(l)
  \/ \E l \in Loops, res \in ExecResults : ExecuteReturn(l, res)
  \/ \E l \in Loops : ExecuteRaise(l)
  \/ \E l \in Loops : NotifyReturn(l)
  \/ \E l \in Loops : NotifyRaise(l)
  \/ \E l \in Loops : CancelDeliver(l)

\* The steps of the trigger_now() calls.
TriggerNext ==
  \/ \E c \in Callers, f \in FileStates : TriggerNow(c, f)
  \/ \E c \in Callers, r \in Responses : TrigOracleReturn(c, r)
  \/ \E c \in Callers : TrigOracleRaise(c)
  \/ \E c \in Callers, res \in ExecResults : TrigExecuteReturn(c, res)
  \/ \E c \in Callers : TrigExecuteRaise(c)
  \/ \E c \in Callers : TriggerDone(c)

Next == SchedulerNext \/ TriggerNext

Spec == Init /\ [][Next]_vars

\* HeartbeatService(workspace, provider, model, ...) without the `enabled`
\* argument: the service as __init__ leaves it, `enabled` at its default.
DefaultInit ==
  /\ Init
  /\ enabled = DefaultEnabled

DefaultSpec == DefaultInit /\ [][Next]_vars

\* The event loop runs what is ready: a created task gets its first step, a
\* sleep that has run out returns, a requested cancellation is delivered.
\* Nothing is assumed of the oracle and the callbacks, which may never
\* return, nor of the callers of start(), stop() and trigger_now().
Fairness ==
  \A l \in Loops :
    /\ WF_vars(LoopBegin(l))
    /\ WF_vars(\E f \in FileStates : TimerFire(l, f))
    /\ WF_vars(CancelDeliver(l))

\* The consolidation engine on its own: a scheduler as constructed, never
\* started, and any sequence of consolidate() calls.
MemSpecInit ==
  /\ MemInit
  /\ SearchIdle
  /\ enabled = TRUE
  /\ onExecute = FALSE
  /\ onNotify = FALSE
  /\ running = FALSE
  /\ task = 0
  /\ created = 0
  /\ loop = [l \in Loops |-> NoLoop]
  /\ trig = [c \in Callers |-> NoCall]
  /\ lastCall = "none"

MemSpec == MemSpecInit /\ [][MemNext]_vars

\* The calls of top_k on a search tool, of any class and configuration; the
\* heartbeat service and the memory are as constructed.
SearchSpecInit ==
  /\ MemInit
  /\ searchTool \in SearchTools
  /\ lastTopK = NoTopK
  /\ enabled = DefaultEnabled
  /\ onExecute = FALSE
  /\ onNotify = FALSE
  /\ running = FALSE
  /\ task = 0
  /\ created = 0
  /\ loop = [l \in Loops |-> NoLoop]
  /\ trig = [c \in Callers |-> NoCall]
  /\ lastCall = "none"

SearchSpec == SearchSpecInit /\ [][SearchNext]_vars

\* The loop under fairness. trigger_now() reads and writes nothing of
\* _running, _task and the loop tasks, and no step of the loop reads a
\* trigger_now() call: the loop's progress is that of its own steps.
FairSpec == Init /\ [][SchedulerNext]_vars /\ Fairness

\* ----------------------------------------------------------------- claims

\* C1. Idempotent start: a start() on an enabled scheduler that is already
\* running changes nothing: the task handle stays the same task, running
\* stays true and no loop task is created.
C1_IdempotentStart ==
  [][(enabled /\ running /\ Start) =>
       (task' = task /\ running' /\ created' = created /\ loop' = loop)]_vars

C1_Witness ==
  /\ lastCall = "start_already"
  /\ running
  /\ task # 0
  /\ loop[task].pc \notin Finished \cup {"unborn"}

\* The cycles in progress: the loop tasks in a tick and the trigger_now()
\* calls past their read of the file.
CyclesInProgress ==
  Cardinality({l \in Loops : loop[l].pc \in Ticking})
    + Cardinality({c \in Callers : trig[c].pc \in {"decide", "execute"}})

C3_FailedTickLoopContinues ==
  /\ [](\A l \in Loops : loop[l].last = "failed" => loop[l].pc = "sleep")
  /\ \A l \in Loops :
       (loop[l].last = "failed" /\ task = l)
         ~> (loop[l].last \in {"noop", "ticking"} \/ task # l)

C3_Witness ==
  \E l \in Loops : loop[l].last = "failed" /\ loop[l].pc = "sleep" /\ task = l /\ running

\* C4 as claimed: after stop() the loop task terminates normally: no
\* cancellation leaves the loop task.
C4_StoppedLoopNeverEndsCancelled ==
  \A l \in Loops : loop[l].pc # "cancelled"

\* C4, amended: after stop() the loop task terminates; it terminates normally
\* when it had begun to run (the cancellation reaches it in the sleep or in a
\* tick), and ends cancelled only when stop() came before its first step.
C4_StopEndsStartedLoopNormally ==
  /\ \A l \in Loops :
       loop[l].cancel ~> (~loop[l].cancel /\ loop[l].pc \in {"done", "cancelled"})
  /\ [][\A l \in Loops :
          (loop[l].pc \notin Finished /\ loop'[l].pc \in Finished) =>
            \/ loop'[l].pc = "done"
            \/ loop[l].pc = "created" /\ loop'[l].pc = "cancelled"]_vars

C4_Witness ==
  \E l \in Loops : loop[l].pc = "done" /\ loop[l].last = "abandoned"

\* The tasks text of a response whose arguments are a mapping: the text under
\* "tasks", the empty text without one.
TasksOf(r) ==
  IF "tasks" \in DOMAIN r.arguments.map THEN r.arguments.map["tasks"] ELSE ""

DecidesRun(r) ==
  /\ r.has_tool_calls
  /\ r.arguments.kind = "mapping"
  /\ "action" \in DOMAIN r.arguments.map
  /\ r.arguments.map["action"] = "run"

\* C5. Decision determinism: execute is invoked only on a tool invocation
\* whose action is run, with exactly its tasks text, and at most once in a
\* cycle (only from the decision of that cycle).
C5_DecisionDeterminism ==
  /\ [](\A l \in Loops :
          loop[l].pc = "execute" => DecidesRun(loop[l].resp) /\ loop[l].arg = TasksOf(loop[l].resp))
  /\ [](\A c \in Callers :
          trig[c].pc = "execute" => DecidesRun(trig[c].resp) /\ trig[c].arg = TasksOf(trig[c].resp))
  /\ [][/\ \A l \in Loops :
            (loop'[l].pc = "execute" /\ loop[l].pc # "execute") => loop[l].pc = "decide"
        /\ \A c \in Callers :
            (trig'[c].pc = "execute" /\ trig[c].pc # "execute") => trig[c].pc = "decide"]_vars

C5_Witness ==
  /\ \E l \in Loops : loop[l].pc = "execute" /\ loop[l].arg = "T2"
  /\ \E c \in Callers : trig[c].pc = "execute" /\ trig[c].arg = "T1"

\* C6 as claimed: a failure of the oracle call or of execute during
\* trigger_now() is never raised to the caller.
C6_TriggerNeverRaises ==
  \A c \in Callers : trig[c].pc # "raised"

\* C6, amended: trigger_now() catches nothing: a failure of the oracle call,
\* of the argument access or of execute is raised to its caller; only a
\* failing read of the trigger file becomes a None result.
C6_TriggerPropagatesFailures ==
  \A c \in Callers :
    /\ trig[c].failure # "none" => trig[c].pc = "raised"
    /\ (trig[c].pc = "returned" /\ trig[c].read = "unreadable") =>
         (trig[c].result = NoneV /\ trig[c].failure = "none")

C6_Witness ==
  /\ \E c \in Callers : trig[c].pc = "raised" /\ trig[c].failure \in {"oracle", "execute"}

\* C7 as claimed: when execute returns a non-empty result to trigger_now()
\* and a notify callback is registered, notify is invoked with it.
C7_TriggerNotifies ==
  \A c \in Callers :
    (trig[c].pc = "returned" /\ Truthy(trig[c].result) /\ onNotify) => trig[c].notified

\* C7, amended: trigger_now() runs the decision and execute but never the
\* notify callback: the result of execute goes to its caller only.
C7_TriggerNeverNotifies ==
  \A c \in Callers : ~trig[c].notified

C7_Witness ==
  \E c \in Callers :
    trig[c].pc = "returned" /\ Truthy(trig[c].result) /\ onNotify /\ ~trig[c].notified

\* Whether sequence s is a prefix of sequence t.
IsPrefix(s, t) == Len(s) <= Len(t) /\ SubSeq(t, 1, Len(s)) = s

\* C8. After any sequence of consolidate() calls the Memory Snapshot is
\* exactly the normalized memory_update of the most recent successful
\* consolidation, and a skipped or failed call leaves it unchanged.
C8_SnapshotIsLastUpdate ==
  /\ [](memorySnapshot = lastGood)
  /\ [][lastCons'.path # "consolidated" => memorySnapshot' = memorySnapshot]_vars

C8_Witness ==
  /\ successes = 2
  /\ historyStore[1] # historyStore[2]
  /\ memorySnapshot = <<Raw("m2")>>

C10_NoToolCallFails ==
  [][\A n \in 0..MaxMessages, w \in 1..MaxMessages, wf \in WriteFailures :
       (n >= w /\ Consolidate(n, w, NoToolCallOutcome, wf)) =>
         /\ lastCons'.ret = "false"
         /\ historyStore' = historyStore
         /\ memorySnapshot' = memorySnapshot]_vars

C10_Witness ==
  /\ lastCons = [ret |-> "false", path |-> "no_tool_call"]
  /\ historyStore = << >>
  /\ memorySnapshot = Absent

\* A tool call of save_memory with arguments a, as an oracle outcome.
ToolCall(a) == [kind |-> "tool_call", arguments |-> a]

C12_NativeAndJsonTextAgree ==
  \A j \in SaveMemoryMappings, n \in 0..MaxMessages, w \in 1..MaxMessages, wf \in WriteFailures :
    ConsolidateResult(n, w, ToolCall(NativeArgs(j)), wf, historyStore, memorySnapshot)
      = ConsolidateResult(n, w, ToolCall(TextArgs(JsonDumps(j))), wf, historyStore, memorySnapshot)

C12_Witness ==
  /\ Len(historyStore) = 1
  /\ memorySnapshot # Absent
  /\ \E j \in SaveMemoryMappings :
       LET r == ConsolidateResult(MaxMessages, 1, ToolCall(TextArgs(JsonDumps(j))), "none",
                                  historyStore, memorySnapshot)
       IN  /\ r.ret = "true"
           /\ Len(r.history) = 2
           /\ r.history[2] # historyStore[1]
           /\ r.memory # memorySnapshot

\* The arguments that are neither a mapping nor valid JSON text.
MalformedArguments ==
  { a \in SaveMemoryArguments :
      /\ ~(a.enc = "native" /\ a.val.t = "obj")
      /\ ~(a.enc = "text" /\ JsonLoads(a.text).ok) }

\* C13. Past the window gate, a save_memory call whose arguments are neither
\* a mapping nor valid JSON text makes consolidate() return false with both
\* stores as they were: no empty text is written for the missing fields.
C13_MalformedArgumentsFail ==
  \A n \in 0..MaxMessages, w \in 1..MaxMessages, wf \in WriteFailures, a \in MalformedArguments :
    LET r == ConsolidateResult(n, w, ToolCall(a), wf, historyStore, memorySnapshot)
    IN  n >= w =>
          /\ r.ret = "false"
          /\ r.history = historyStore
          /\ r.memory = memorySnapshot

C13_Witness ==
  /\ lastCons = [ret |-> "false", path |-> "malformed"]
  /\ Len(historyStore) = 1
  /\ memorySnapshot # Absent
  /\ memorySnapshot = lastGood

\* C14. Past the window gate consolidate() returns true only when the entry
\* of the call has been appended to the History Store and its update has
\* replaced the Memory Snapshot; a call one of whose writes fails, the second
\* after the first was done included, does not return true.
C14_SuccessOnlyAfterBothWrites ==
  \A n \in 0..MaxMessages, w \in 1..MaxMessages, o \in ConsOutcomes, wf \in WriteFailures :
    LET r == ConsolidateResult(n, w, o, wf, historyStore, memorySnapshot)
    IN  n >= w =>
          /\ wf # "none" => r.ret # "true"
          /\ r.ret = "true" =>
               /\ o.kind = "tool_call"
               /\ Decoded[o.arguments].ok
               /\ r.history =
                    historyStore \o
                      <<NormalizeField(GetFrom(Decoded[o.arguments].val.v, "history_entry", 1))>>
               /\ r.memory =
                    NormalizeField(GetFrom(Decoded[o.arguments].val.v, "memory_update", 1))

C14_Witness ==
  /\ lastCons = [ret |-> "false", path |-> "memory_write_failed"]
  /\ Len(historyStore) = 1
  /\ memorySnapshot = Absent

\* Whether `text` is what field value v is persisted as: the string itself,
\* or a JSON text that parses back to the structured value.
Persisted(v, text) ==
  IF v.t = "str" THEN text = <<Raw(v.v)>>
  ELSE JsonLoads(text) = [ok |-> TRUE, val |-> v]

\* C15. Field normalization: a consolidate() whose writes succeed returns
\* true on every save_memory mapping, and each of its two fields is
\* persisted verbatim when it is a plain string and as JSON text that parses
\* back to the same value when it is a mapping or a sequence.
C15_FieldNormalization ==
  \A n \in 0..MaxMessages, w \in 1..MaxMessages, j \in SaveMemoryMappings :
    LET r == ConsolidateResult(n, w, ToolCall(NativeArgs(j)), "none", historyStore, memorySnapshot)
    IN  n >= w =>
          /\ r.ret = "true"
          /\ Len(r.history) = Len(historyStore) + 1
          /\ Persisted(GetFrom(j.v, "history_entry", 1), r.history[Len(r.history)])
          /\ Persisted(GetFrom(j.v, "memory_update", 1), r.memory)

C15_Witness ==
  /\ lastCons = [ret |-> "true", path |-> "consolidated"]
  /\ Len(historyStore) = 2
  /\ historyStore[1] = <<Raw("h1")>>
  /\ JsonLoads(historyStore[2]).ok
  /\ JsonLoads(historyStore[2]).val.t = "obj"
  /\ JsonLoads(memorySnapshot) = [ok |-> TRUE, val |-> JList(<<JStr("A"), JStr("B")>>)]

\* C16. While enabled is false the scheduler stays Stopped whatever start(),
\* stop() and trigger_now() calls are made: running is false, there is no
\* task handle, no loop task was ever created and so no timer tick runs.
C16_DisabledStaysStopped ==
  ~enabled =>
    /\ ~running
    /\ task = 0
    /\ created = 0
    /\ \A l \in Loops : loop[l] = NoLoop

C16_Witness ==
  /\ ~enabled
  /\ lastCall = "start_disabled"
  /\ \E c \in Callers : trig[c].pc = "returned" /\ trig[c].result = "R1"

\* C17 as claimed: on a scheduler constructed without the enabled argument
\* start() leaves running false and schedules no timer loop.
C17_DisabledByDefault ==
  ~running /\ task = 0 /\ created = 0

\* C18. When stop() returns, running is false and there is no task handle,
\* and the loop task held before the call has had its cancellation
\* requested; stop() on a stopped scheduler changes nothing.
C18_StopPostcondition ==
  [][Stop =>
       /\ ~running'
       /\ task' = 0
       /\ task # 0 =>
            /\ loop'[task].cancel
            /\ \A l \in Loops \ {task} : loop'[l] = loop[l]
       /\ (~running /\ task = 0) =>
            UNCHANGED <<enabled, onExecute, onNotify, running, task, created, loop, trig, memVars, searchVars>>]_vars

C18_Witness ==
  /\ lastCall = "stop_cancelled"
  /\ ~running
  /\ task = 0
  /\ \E l \in Loops : loop[l].cancel /\ loop[l].pc = "execute"

\* The reads of the trigger file that find nothing to act on.
NoContent == {f \in FileStates : ~(f = "content")}

\* C19. A trigger_now() call that returns, returns None when the trigger
\* file has no content, when the decision is not run or when there is no
\* execute callback; otherwise on_execute is called, once, and what it
\* returns is what the call returns.
C19_TriggerResult ==
  [][\A c \in Callers :
       /\ (trig[c].pc = "idle" /\ trig'[c].pc = "returned") =>
            /\ trig'[c].read \in NoContent
            /\ trig'[c].result = NoneV
       /\ (trig[c].pc = "idle" /\ trig'[c].pc = "decide") => trig'[c].read = "content"
       /\ (trig[c].pc = "decide" /\ trig'[c].pc = "returned") =>
            /\ trig'[c].result = NoneV
            /\ \E r \in Responses :
                 TrigOracleReturn(c, r) /\ (~DecidesRun(r) \/ ~onExecute)
       /\ (trig[c].pc = "decide" /\ trig'[c].pc = "execute") =>
            /\ onExecute
            /\ DecidesRun(trig'[c].resp)
       /\ (trig[c].pc = "decide" /\ trig'[c].pc # "decide" /\ onExecute) =>
            \A r \in Responses :
              (DecidesRun(r) /\ TrigOracleReturn(c, r)) => trig'[c].pc = "execute"
       /\ (trig[c].pc = "execute" /\ trig'[c].pc = "returned") =>
            \E res \in ExecResults : TrigExecuteReturn(c, res) /\ trig'[c].result = res
       /\ (trig'[c].pc = "returned" /\ trig[c].pc # "returned") =>
            trig[c].pc \in {"idle", "decide", "execute"}]_vars

C19_Witness ==
  \E c \in Callers :
    trig[c].pc = "returned" /\ trig[c].read = "content" /\ trig[c].result = ""

\* C20. A timer tick or a trigger_now() call that finds the trigger file
\* absent, unreadable or empty is over at once and is a no-op: it never
\* waits for the oracle or a callback, the tick is not a failed one, and the
\* call returns None, without an exception and without a notification.
C20_NoContentIsNoOp ==
  /\ \A l \in Loops :
       loop[l].read \in NoContent =>
         /\ loop[l].pc \in {"sleep", "done"}
         /\ loop[l].last = "noop"
  /\ \A l \in Loops :
       (loop[l].pc \in Ticking \/ loop[l].last = "failed") =>
         loop[l].read = "content"
  /\ \A c \in Callers :
       trig[c].read \in NoContent =>
         /\ trig[c].pc = "returned"
         /\ trig[c].result = NoneV
         /\ trig[c].failure = "none"
         /\ ~trig[c].notified
  /\ \A c \in Callers :
       trig[c].pc \in {"decide", "execute", "raised"} => trig[c].read = "content"

C20_Witness ==
  /\ \E l \in Loops :
       loop[l].pc = "sleep" /\ loop[l].last = "noop" /\ loop[l].read = "unreadable"
  /\ \E c \in Callers : trig[c].pc = "returned" /\ trig[c].read = "absent"

\* C21. on_notify is invoked only in a tick whose decision was run and whose
\* on_execute returned a non-empty result, right after that return and with
\* exactly that result: never on a skip, after a failure of on_execute or
\* after an empty result, and never by trigger_now().
C21_NotifyOnlyAfterNonEmptyResult ==
  /\ [](\A l \in Loops :
          loop[l].pc = "notify" =>
            /\ onNotify
            /\ Truthy(loop[l].res)
            /\ DecidesRun(loop[l].resp))
  /\ [](\A c \in Callers : trig[c].pc # "notify" /\ ~trig[c].notified)
  /\ [][\A l \in Loops :
          (loop'[l].pc = "notify" /\ loop[l].pc # "notify") =>
            /\ loop[l].pc = "execute"
            /\ \E res \in ExecResults :
                 Truthy(res) /\ ExecuteReturn(l, res) /\ loop'[l].res = res]_vars

C21_Witness ==
  \E l \in Loops : loop[l].pc = "notify" /\ loop[l].res = "R1" /\ loop[l].arg = "T2"

\* C22. The timer loop terminates only by the cancellation of stop(): while
\* running is true the loop task of the handle is alive (scheduled, in its
\* sleep or in a tick) with no cancellation requested; a loop task that has
\* finished is one whose handle stop() dropped, it never ends with an
\* exception, and it finishes only with a cancellation requested.
C22_LoopEndsOnlyByStop ==
  /\ [](running =>
          /\ task # 0
          /\ loop[task].pc \in {"created"} \cup Suspended
          /\ ~loop[task].cancel)
  /\ [](\A l \in Loops : loop[l].pc \in Finished => (task # l /\ loop[l].pc # "crashed"))
  /\ [][\A l \in Loops :
          (loop[l].pc \notin Finished /\ loop'[l].pc \in Finished) =>
            (loop[l].cancel /\ task # l)]_vars

C22_Witness ==
  /\ running
  /\ task # 0
  /\ loop[task].pc \in Ticking
  /\ \E l \in Loops : loop[l].pc = "done" /\ loop[l].last = "none"

\* C23. running and the task handle change only in start() and stop(): the
\* steps of a tick and of trigger_now() leave them as they are; and each step
\* of trigger_now() can be taken whatever the scheduler's state, and changes
\* nothing of the scheduler and its loop tasks.
C23_OnlyStartStopChangeLifecycle ==
  /\ [][(running' # running \/ task' # task) => (Start \/ Stop)]_vars
  /\ [][(trig' # trig) => UNCHANGED <<enabled, running, task, created, loop, lastCall>>]_vars
  /\ [](\A c \in Callers :
          /\ trig[c].pc = "idle" => \A f \in FileStates : ENABLED TriggerNow(c, f)
          /\ trig[c].pc = "decide" =>
               /\ ENABLED TrigOracleRaise(c)
               /\ \A r \in Responses : ENABLED TrigOracleReturn(c, r)
          /\ trig[c].pc = "execute" =>
               /\ ENABLED TrigExecuteRaise(c)
               /\ \A res \in ExecResults : ENABLED TrigExecuteReturn(c, res))

C23_Witness ==
  /\ running
  /\ task # 0
  /\ loop[task].last = "failed"
  /\ \E c \in Callers : trig[c].pc = "raised"

\* A timer tick begins in loop task l: its sleep is over and _tick reads the
\* trigger file.
TickBegins(l) ==
  /\ loop[l].pc = "sleep"
  /\ \/ loop'[l].pc = "decide"
     \/ loop'[l].last = "noop" /\ loop'[l].pc = loop[l].pc /\ loop'[l] # loop[l]

\* C24. Restart: after stop() and start() running is true with a new loop
\* task, alive and not cancelled; every other loop task created is cancelled
\* or finished; and a tick begins only in the loop task of the handle, never
\* in one stop() has cancelled, although running is true again when the
\* cancellation reaches it.
C24_RestartRunsOneLoop ==
  /\ [](lastCall = "start_created" =>
          /\ running
          /\ task = created
          /\ loop[task].pc \notin Finished
          /\ ~loop[task].cancel)
  /\ [](\A l \in Loops :
          (l <= created /\ l # task) => (loop[l].cancel \/ loop[l].pc \in Finished))
  /\ [][\A l \in Loops : TickBegins(l) => (running /\ task = l /\ ~loop[l].cancel)]_vars

C24_Witness ==
  /\ lastCall = "start_created"
  /\ running
  /\ task = 2
  /\ loop[1].cancel
  /\ loop[1].pc = "sleep"
  /\ loop[1].last = "executed"

\* C25. After stop() the loop task it cancelled takes no further step of a
\* tick: its next step is the end of the task. A tick enters the oracle call,
\* on_execute or on_notify only in the loop task of the handle, with running
\* true and no cancellation requested.
C25_NoStepAfterStop ==
  [][\A l \in Loops :
       /\ loop[l].cancel => (loop'[l] = loop[l] \/ loop'[l].pc \in Finished)
       /\ (loop'[l].pc \in Ticking /\ loop'[l].pc # loop[l].pc) =>
            (running /\ task = l /\ ~loop[l].cancel)]_vars

C25_Witness ==
  /\ ~running
  /\ task = 0
  /\ \E l \in Loops : loop[l].pc = "done" /\ loop[l].last = "abandoned"

\* How a tick that ran to its end is over.
TickOutcomes == {"skipped", "no_execute", "executed", "notified", "failed"}

\* C26. The timer ticks of a loop are sequential: a tick begins only from the
\* sleep, the loop is back in its sleep only when the tick is over, completed
\* or failed, however long on_execute takes, and the first step of a new loop
\* task is the sleep of one interval, not a tick.
C26_TicksSequential ==
  [][\A l \in Loops :
       /\ (loop'[l].pc = "decide" /\ loop[l].pc # "decide") => loop[l].pc = "sleep"
       /\ (loop[l].pc = "created" /\ loop'[l].pc # "created") =>
            loop'[l].pc \in {"sleep", "cancelled"}
       /\ (loop'[l].pc = "sleep" /\ loop[l].pc # "sleep") =>
            \/ loop[l].pc = "created"
            \/ loop[l].pc \in Ticking /\ loop'[l].last \in TickOutcomes
       /\ (loop[l].pc = "execute" /\ loop'[l].pc # "execute") =>
            loop'[l].pc \in {"notify", "sleep", "done"}]_vars

C26_Witness ==
  \E l \in Loops :
    loop[l].pc = "sleep" /\ loop[l].last = "notified" /\ running /\ task = l

\* C27. In every reachable state running is true exactly when the scheduler
\* holds a task handle.
C27_RunningIffTask ==
  running <=> task # 0

C27_Witness ==
  /\ running
  /\ task = 2
  /\ \E c \in Callers : trig[c].pc = "execute"

\* C28 as claimed: the decision on a tool call whose arguments are the raw
\* JSON text of a mapping is the decision on that mapping, and no cycle fails
\* on the access to the arguments.
C28_DecisionIgnoresEncoding ==
  /\ \A r \in Responses :
       r.arguments.kind = "text" => Decide(r) = Decide(MappingCall(r.arguments.map))
  /\ \A c \in Callers : trig[c].failure # "arguments"

\* The integer n brought into the range from lo to hi.
Clamped(n, lo, hi) == IF n < lo THEN lo ELSE IF n > hi THEN hi ELSE n

\* C29. top_k(count) is at least 1 and at most limit_results for every
\* integer count and for None; for None it is max_results brought into that
\* range.
C29_TopKInRange ==
  lastTopK.called =>
    /\ lastTopK.top_k >= 1
    /\ lastTopK.top_k <= searchTool.limit_results
    /\ ~lastTopK.count.given =>
         lastTopK.top_k = Clamped(searchTool.max_results, 1, searchTool.limit_results)

C29_Witness ==
  /\ lastTopK.called
  /\ searchTool.limit_results = BaiduLimitResults
  /\ lastTopK.count.given
  /\ lastTopK.count.n > BaiduLimitResults
  /\ lastTopK.top_k = BaiduLimitResults

====
